---- MODULE Spec2Model ----
(***************************************************************************)
(* Model of Source/Scene/Appearance.js: the base Appearance object, its    *)
(* public fields and read-only accessors, and its derivation methods       *)
(* getFragmentShaderSource, isTranslucent, getRenderState and the static   *)
(* getDefaultRenderState.                                                  *)
(*                                                                         *)
(* JavaScript values are encoded as strings: "undefined", "null", "true",  *)
(* "false", enumeration members ("BACK", "ALPHA_BLEND"), shader texts, and *)
(* object references ("o1", "o2", ...).  Objects live in `heap`, a         *)
(* function from references to objects; an object is a function from its   *)
(* own property names to values, so two descriptors sharing a nested       *)
(* object hold the same reference.                                         *)
(***************************************************************************)
EXTENDS Naturals, Sequences, FiniteSets, TLC

VARIABLES
    material,               \* this.material (public data property)
    translucent,            \* this.translucent (public data property)
    _vertexShaderSource,    \* this._vertexShaderSource
    _fragmentShaderSource,  \* this._fragmentShaderSource
    _renderState,           \* this._renderState: "undefined" or a reference
    _closed,                \* this._closed
    flat,                   \* this.flat, read by getFragmentShaderSource
    faceForward,            \* this.faceForward, read by getFragmentShaderSource
    heap,                   \* the objects alive: reference -> object
    options,                \* the options the constructor was called with
    heap0,                  \* the caller's override objects as they were at construction
    ret,                    \* the outcome of the latest operation
    quiet                   \* TRUE iff nothing was assigned or mutated since the latest method call

vars == <<material, translucent, _vertexShaderSource, _fragmentShaderSource,
          _renderState, _closed, flat, faceForward, heap, options, heap0, ret, quiet>>

fields == <<material, translucent, _vertexShaderSource, _fragmentShaderSource,
            _renderState, _closed, flat, faceForward>>

----------------------------------------------------------------------------
(* Values *)

Undefined == "undefined"
Null == "null"

\* The references objects can be allocated at, in allocation order.
AddrSeq == <<"o1", "o2", "o3", "o4", "o5", "o6", "o7", "o8", "o9", "o10", "o11", "o12">>

\* BlendingState.ALPHA_BLEND, a shared preset object of ./BlendingState.
ALPHA_BLEND == "ALPHA_BLEND"
\* Another preset of ./BlendingState a caller may put in an override.
ADDITIVE_BLEND == "ADDITIVE_BLEND"
\* CullFace.BACK of ./CullFace.
BACK == "BACK"

EmptyObject == [f \in {} |-> Undefined]

\* JavaScript truthiness of an encoded value.
truthy(v) == v \notin {Undefined, Null, "false", ""}

\* a && b and a || b of JavaScript: they return one of their operands.
And(a, b) == IF truthy(a) THEN b ELSE a
Or(a, b) == IF truthy(a) THEN a ELSE b
Not(a) == IF truthy(a) THEN "false" ELSE "true"

\* Materials: objects with a shaderSource string and an isTranslucent() method.
NoMaterial(v) == [kind |-> v, shaderSource |-> Undefined, isTranslucent |-> Undefined]
TranslucentMaterial == [kind |-> "object", shaderSource |-> "vec4 f(){return vec4(1.0);}",
                        isTranslucent |-> "true"]
OpaqueMaterial == [kind |-> "object", shaderSource |-> "czm_material czm_getMaterial(){}",
                   isTranslucent |-> "false"]
Materials == {NoMaterial(Undefined), NoMaterial(Null), TranslucentMaterial, OpaqueMaterial}

----------------------------------------------------------------------------
(* Core helpers imported by Appearance.js *)

\* defined(value) of ../Core/defined: a value counts as absent when it is
\* undefined or null.
defined(v) == v.kind \notin {Undefined, Null}

\* defaultValue(a, b) of ../Core/defaultValue.
defaultValue(a, b) == IF a # Undefined THEN a ELSE b

\* The i-th reference, in allocation order, that is not in use in h.
RECURSIVE FreshFrom(_, _, _)
FreshFrom(h, i, k) ==
    IF AddrSeq[k] \in DOMAIN h THEN FreshFrom(h, i, k + 1)
    ELSE IF i = 1 THEN AddrSeq[k]
    ELSE FreshFrom(h, i - 1, k + 1)
Fresh(h, i) == FreshFrom(h, i, 1)

\* The properties of object a of h that hold references to objects.
RefFields(h, a) == {f \in DOMAIN h[a] : h[a][f] \in DOMAIN h}

\* A set of property names in a fixed order.
RECURSIVE SetToSeq(_)
SetToSeq(S) ==
    IF S = {} THEN <<>>
    ELSE LET x == CHOOSE y \in S : TRUE IN <<x>> \o SetToSeq(S \ {x})

\* clone(object, deep) of ../Core/clone, as a heap transformer.  A value that
\* is no object (undefined, null, a primitive) is handed back as it is and
\* nothing is created.  For an object the result is a new object with its
\* own properties; with deep = FALSE the property values are copied as they
\* are, so nested objects are shared; with deep = TRUE nested objects are
\* cloned in turn.
RECURSIVE clone(_, _, _)
RECURSIVE cloneProperties(_, _, _)
cloneProperties(h, a, fs) ==
    IF fs = <<>> THEN [heap |-> h, ref |-> a]
    ELSE LET sub == clone(h, h[a][Head(fs)], TRUE)
         IN cloneProperties([sub.heap EXCEPT ![a][Head(fs)] = sub.ref], a, Tail(fs))
clone(h, object, deep) ==
    LET a == Fresh(h, 1) IN
    IF object \notin DOMAIN h
    THEN [heap |-> h, ref |-> object]
    ELSE LET copy == (a :> h[object]) @@ h IN
         IF deep THEN cloneProperties(copy, a, SetToSeq(RefFields(copy, a)))
         ELSE [heap |-> copy, ref |-> a]

\* rs[name] = value, for an object rs.
SetProperty(h, rs, name, value) ==
    IF name \in DOMAIN h[rs] THEN [h EXCEPT ![rs][name] = value]
    ELSE [h EXCEPT ![rs] = (name :> value) @@ h[rs]]

----------------------------------------------------------------------------
(* The appearance and its methods *)

\* `this`: the appearance as the methods see it.
this == [material |-> material, translucent |-> translucent,
         _vertexShaderSource |-> _vertexShaderSource,
         _fragmentShaderSource |-> _fragmentShaderSource,
         _renderState |-> _renderState, _closed |-> _closed,
         flat |-> flat, faceForward |-> faceForward]

\* The read-only accessors: each has a getter and no setter.
vertexShaderSource(self) == self._vertexShaderSource
fragmentShaderSource(self) == self._fragmentShaderSource
renderState(self) == self._renderState
closed(self) == self._closed
Accessors == {"vertexShaderSource", "fragmentShaderSource", "renderState", "closed"}

\* new ShaderSource({defines, sources, includeBuiltIns}).getCombinedShader(true)
\* of ../Renderer/ShaderSource: one text made of a #define line per define
\* followed by the sources in order, a missing source contributing nothing.
RECURSIVE combineDefines(_)
combineDefines(defines) ==
    IF defines = <<>> THEN <<>>
    ELSE <<"#define " \o Head(defines)>> \o combineDefines(Tail(defines))
RECURSIVE combineSources(_)
combineSources(sources) ==
    IF sources = <<>> THEN <<>>
    ELSE (IF Head(sources) \in {Undefined, Null} THEN <<>> ELSE <<Head(sources)>>)
         \o combineSources(Tail(sources))
getCombinedShader(args) == combineDefines(args.defines) \o combineSources(args.sources)

NoArgs == [defines |-> <<>>, sources |-> <<>>, includeBuiltIns |-> Undefined]

\* getFragmentShaderSource with a slip: the appearance's source is pushed
\* before the material's.
getFragmentShaderSource_appearanceFirst(self) ==
    LET defines == (IF truthy(self.flat) THEN <<"FLAT">> ELSE <<>>)
                   \o (IF truthy(self.faceForward) THEN <<"FACE_FORWARD">> ELSE <<>>)
        sources == <<fragmentShaderSource(self)>>
                   \o (IF defined(self.material) THEN <<self.material.shaderSource>> ELSE <<>>)
        args == [defines |-> defines, sources |-> sources, includeBuiltIns |-> "false"]
    IN [args |-> args, text |-> getCombinedShader(args)]

\* Appearance.prototype.getFragmentShaderSource: the arguments handed to the
\* ShaderSource constructor and the combined text returned.
getFragmentShaderSource(self) ==
    LET defines == (IF truthy(self.flat) THEN <<"FLAT">> ELSE <<>>)
                   \o (IF truthy(self.faceForward) THEN <<"FACE_FORWARD">> ELSE <<>>)
        sources == (IF defined(self.material) THEN <<self.material.shaderSource>> ELSE <<>>)
                   \o <<fragmentShaderSource(self)>>
        args == [defines |-> defines, sources |-> sources, includeBuiltIns |-> "false"]
    IN [args |-> args, text |-> getCombinedShader(args)]

\* isTranslucent with a slip: the flag is consulted whenever the material
\* does not say translucent, also when a material is present.
isTranslucent_flagWins(self) ==
    Or(And(IF defined(self.material) THEN "true" ELSE "false", self.material.isTranslucent),
       self.translucent)

\* Appearance.prototype.isTranslucent.
isTranslucent(self) ==
    Or(And(IF defined(self.material) THEN "true" ELSE "false", self.material.isTranslucent),
       And(IF defined(self.material) THEN "false" ELSE "true", self.translucent))

\* getRenderState with a slip: the opaque branch sets nothing.
getRenderState_opaqueUnpatched(self, h) ==
    LET t == isTranslucent(self)
        c == clone(h, renderState(self), FALSE)
        rs == c.ref
    IN  IF rs \notin DOMAIN c.heap
        THEN [heap |-> h, ref |-> Undefined, threw |-> TRUE]
        ELSE IF truthy(t)
        THEN [heap |-> SetProperty(SetProperty(c.heap, rs, "depthMask", "false"),
                                   rs, "blending", ALPHA_BLEND),
              ref |-> rs, threw |-> FALSE]
        ELSE [heap |-> c.heap, ref |-> rs, threw |-> FALSE]

\* getRenderState with a slip: the override is patched in place, not cloned.
getRenderState_inPlace(self, h) ==
    LET t == isTranslucent(self)
        rs == renderState(self)
    IN  IF rs \notin DOMAIN h
        THEN [heap |-> h, ref |-> Undefined, threw |-> TRUE]
        ELSE IF truthy(t)
        THEN [heap |-> SetProperty(SetProperty(h, rs, "depthMask", "false"),
                                   rs, "blending", ALPHA_BLEND),
              ref |-> rs, threw |-> FALSE]
        ELSE [heap |-> SetProperty(h, rs, "depthMask", "true"),
              ref |-> rs, threw |-> FALSE]

\* Appearance.prototype.getRenderState, as a heap transformer: the new heap,
\* the reference returned, and whether the call raised instead.  Without an
\* override clone hands undefined back and rs.depthMask = ... raises a
\* TypeError; the method has no fallback of its own.
getRenderState(self, h) ==
    LET t == isTranslucent(self)
        c == clone(h, renderState(self), FALSE)
        rs == c.ref
    IN  IF rs \notin DOMAIN c.heap
        THEN [heap |-> h, ref |-> Undefined, threw |-> TRUE]
        ELSE IF truthy(t)
        THEN [heap |-> SetProperty(SetProperty(c.heap, rs, "depthMask", "false"),
                                   rs, "blending", ALPHA_BLEND),
              ref |-> rs, threw |-> FALSE]
        ELSE [heap |-> SetProperty(c.heap, rs, "depthMask", "true"),
              ref |-> rs, threw |-> FALSE]

\* getDefaultRenderState with a slip: culling is decided by translucent.
getDefaultRenderState_cullFromTranslucent(h, t, c) ==
    LET rs == Fresh(h, 1)
        dt == Fresh(h, 2)
        cu == Fresh(h, 3)
        h1 == (rs :> ("depthTest" :> dt)) @@ (dt :> ("enabled" :> "true")) @@ h
        h2 == IF truthy(t)
              THEN SetProperty(SetProperty(h1, rs, "depthMask", "false"),
                               rs, "blending", ALPHA_BLEND)
              ELSE h1
        h3 == IF truthy(t)
              THEN SetProperty((cu :> ("enabled" :> "true" @@ "face" :> BACK)) @@ h2,
                               rs, "cull", cu)
              ELSE h2
    IN [heap |-> h3, ref |-> rs]

\* Appearance.getDefaultRenderState(translucent, closed), as a heap
\* transformer: every object of the result is newly created.
getDefaultRenderState(h, t, c) ==
    LET rs == Fresh(h, 1)
        dt == Fresh(h, 2)
        cu == Fresh(h, 3)
        h1 == (rs :> ("depthTest" :> dt)) @@ (dt :> ("enabled" :> "true")) @@ h
        h2 == IF truthy(t)
              THEN SetProperty(SetProperty(h1, rs, "depthMask", "false"),
                               rs, "blending", ALPHA_BLEND)
              ELSE h1
        h3 == IF truthy(c)
              THEN SetProperty((cu :> ("enabled" :> "true" @@ "face" :> BACK)) @@ h2,
                               rs, "cull", cu)
              ELSE h2
    IN [heap |-> h3, ref |-> rs]

----------------------------------------------------------------------------
(* Construction *)

\* An object literal a caller writes, laid out in an empty heap with the
\* descriptor itself at the first reference: depthTest and cull are nested
\* objects, depthMask and blending are plain values.
Literal(dt, dm, bl, cu) ==
    LET top == [f \in ((IF dt THEN {"depthTest"} ELSE {}) \cup
                       (IF dm # Undefined THEN {"depthMask"} ELSE {}) \cup
                       (IF bl # Undefined THEN {"blending"} ELSE {}) \cup
                       (IF cu THEN {"cull"} ELSE {})) |->
                    CASE f = "depthTest" -> "o2"
                      [] f = "depthMask" -> dm
                      [] f = "blending" -> bl
                      [] f = "cull" -> "o3"]
    IN  ("o1" :> top)
        @@ (IF dt THEN "o2" :> ("enabled" :> "true") ELSE EmptyObject)
        @@ (IF cu THEN "o3" :> ("enabled" :> "true" @@ "face" :> BACK) ELSE EmptyObject)

\* The render states callers pass as options.renderState.
Overrides ==
    { Literal(FALSE, Undefined, Undefined, FALSE),        \* {}
      Literal(TRUE, Undefined, Undefined, FALSE),         \* getDefaultRenderState(false, false)
      Literal(TRUE, "false", ALPHA_BLEND, FALSE),         \* getDefaultRenderState(true, false)
      Literal(TRUE, Undefined, Undefined, TRUE),          \* getDefaultRenderState(false, true)
      Literal(TRUE, "false", ALPHA_BLEND, TRUE),          \* getDefaultRenderState(true, true)
      Literal(TRUE, "true", ADDITIVE_BLEND, FALSE),
      Literal(FALSE, "false", Undefined, TRUE) }

OptionalBooleans == {Undefined, "true", "false"}
\* flat and faceForward as concrete appearances define them: not at all,
\* or as a pair of booleans.
FeatureToggles == {<<Undefined, Undefined>>, <<"true", "false">>, <<"false", "true">>,
                   <<"true", "true">>}
ShaderTexts == {Undefined, "void main(){}"}

\* The outcome of an operation: its name, its arguments (input), the value
\* (val) or object (ref) returned, whether it raised, and for
\* getFragmentShaderSource the ShaderSource arguments and the combined text.
NoResult == [op |-> "new", input |-> <<>>, val |-> Undefined, ref |-> Undefined,
             threw |-> FALSE, args |-> NoArgs, text |-> <<>>]

\* The state after `new Appearance(options)`; flat and faceForward are what a
\* concrete appearance defines, if it defines them.
Init ==
    \E m \in Materials, t \in OptionalBooleans, c \in OptionalBooleans,
       fs \in ShaderTexts, h \in Overrides \cup {EmptyObject},
       ft \in FeatureToggles :
        /\ options = [material |-> m, translucent |-> t, closed |-> c,
                      vertexShaderSource |-> Undefined, fragmentShaderSource |-> fs,
                      renderState |-> IF h = EmptyObject THEN Undefined ELSE "o1"]
        /\ material = options.material
        /\ translucent = defaultValue(options.translucent, "true")
        /\ _vertexShaderSource = options.vertexShaderSource
        /\ _fragmentShaderSource = options.fragmentShaderSource
        /\ _renderState = options.renderState
        /\ _closed = defaultValue(options.closed, "false")
        /\ flat = ft[1]
        /\ faceForward = ft[2]
        /\ heap = h
        /\ heap0 = h
        /\ ret = NoResult
        /\ quiet = FALSE

----------------------------------------------------------------------------
(* Operations *)

\* The objects of h reachable from the references in roots.
RECURSIVE Reachable(_, _)
Reachable(h, roots) ==
    LET R == roots \cap DOMAIN h
        step == R \cup UNION {{h[a][f] : f \in RefFields(h, a)} : a \in R}
    IN IF step = R THEN R ELSE Reachable(h, step)

\* What stays alive: the objects reachable from roots.  The caller keeps the
\* latest result only, so an earlier result is gone when a method is called.
Collect(h, roots) == [a \in Reachable(h, roots) |-> h[a]]
Kept(h, self) == Collect(h, {self._renderState})

\* appearance.material = m
SetMaterial ==
    \E m \in Materials :
        /\ material' = m
        /\ ret' = [NoResult EXCEPT !.op = "material=", !.input = <<m.kind>>]
        /\ quiet' = FALSE
        /\ heap' = Kept(heap, this)
        /\ UNCHANGED <<translucent, _vertexShaderSource, _fragmentShaderSource, _renderState,
                       _closed, flat, faceForward, options, heap0>>

\* appearance.translucent = v: translucent is a plain data property.
SetTranslucent ==
    \E v \in {"true", "false"} :
        /\ translucent' = v
        /\ ret' = [NoResult EXCEPT !.op = "translucent=", !.input = <<v>>]
        /\ quiet' = FALSE
        /\ heap' = Kept(heap, this)
        /\ UNCHANGED <<material, _vertexShaderSource, _fragmentShaderSource, _renderState,
                       _closed, flat, faceForward, options, heap0>>

\* appearance.<accessor> = v for a property defined with a getter only: the
\* assignment changes nothing; it raises a TypeError when the assigning code
\* is strict and is ignored otherwise.
SetAccessor ==
    \E p \in Accessors, strict \in BOOLEAN :
        /\ ret' = [NoResult EXCEPT !.op = p \o "=", !.threw = strict]
        /\ quiet' = FALSE
        /\ heap' = Kept(heap, this)
        /\ UNCHANGED <<material, translucent, _vertexShaderSource, _fragmentShaderSource,
                       _renderState, _closed, flat, faceForward, options, heap0>>

\* appearance.isTranslucent()
IsTranslucentCall ==
    /\ ret' = [NoResult EXCEPT !.op = "isTranslucent", !.val = isTranslucent(this)]
    /\ heap' = Kept(heap, this)
    /\ quiet' = TRUE
    /\ UNCHANGED <<material, translucent, _vertexShaderSource, _fragmentShaderSource,
                   _renderState, _closed, flat, faceForward, options, heap0>>

\* appearance.getFragmentShaderSource()
GetFragmentShaderSourceCall ==
    LET r == getFragmentShaderSource(this) IN
    /\ ret' = [NoResult EXCEPT !.op = "getFragmentShaderSource",
                               !.args = r.args, !.text = r.text]
    /\ heap' = Kept(heap, this)
    /\ quiet' = TRUE
    /\ UNCHANGED <<material, translucent, _vertexShaderSource, _fragmentShaderSource,
                   _renderState, _closed, flat, faceForward, options, heap0>>

\* getRenderState() with a slip: the result is kept as the appearance's
\* render state, to be reused by the next call.
GetRenderStateCall_caching ==
    LET r == getRenderState(this, Kept(heap, this)) IN
    /\ ret' = [NoResult EXCEPT !.op = "getRenderState", !.ref = r.ref, !.threw = r.threw]
    /\ heap' = r.heap
    /\ _renderState' = r.ref
    /\ quiet' = TRUE
    /\ UNCHANGED <<material, translucent, _vertexShaderSource, _fragmentShaderSource,
                   _closed, flat, faceForward, options, heap0>>

\* appearance.getRenderState()
GetRenderStateCall ==
    LET r == getRenderState(this, Kept(heap, this)) IN
    /\ ret' = [NoResult EXCEPT !.op = "getRenderState", !.ref = r.ref, !.threw = r.threw]
    /\ heap' = r.heap
    /\ quiet' = TRUE
    /\ UNCHANGED <<material, translucent, _vertexShaderSource, _fragmentShaderSource,
                   _renderState, _closed, flat, faceForward, options, heap0>>

\* Appearance.getDefaultRenderState(t, c)
GetDefaultRenderStateCall ==
    \E t \in {"true", "false"}, c \in {"true", "false"} :
        LET r == getDefaultRenderState(Kept(heap, this), t, c) IN
        /\ ret' = [NoResult EXCEPT !.op = "getDefaultRenderState", !.ref = r.ref,
                                   !.input = <<t, c>>]
        /\ heap' = r.heap
        /\ quiet' = TRUE
        /\ UNCHANGED <<material, translucent, _vertexShaderSource, _fragmentShaderSource,
                       _renderState, _closed, flat, faceForward, options, heap0>>

Next ==
    \/ SetMaterial
    \/ SetTranslucent
    \/ SetAccessor
    \/ IsTranslucentCall
    \/ GetFragmentShaderSourceCall
    \/ GetRenderStateCall
    \/ GetDefaultRenderStateCall

Spec == Init /\ [][Next]_vars

----------------------------------------------------------------------------
(* The renderer: the consumer of a returned render state *)

\* The code that received the result of getRenderState writes to it: a
\* top-level property (rs.depthMask = v) or a property of one of its nested
\* objects (rs.depthTest.enabled = false, rs.cull.enabled = false).
RendererMutate ==
    /\ ret.op = "getRenderState"
    /\ ret.ref \in DOMAIN heap
    /\ \/ \E v \in {"true", "false"} :
            heap' = SetProperty(heap, ret.ref, "depthMask", v)
       \/ \E f \in RefFields(heap, ret.ref) :
            heap' = SetProperty(heap, heap[ret.ref][f], "enabled", "false")
    /\ quiet' = FALSE
    /\ UNCHANGED <<material, translucent, _vertexShaderSource, _fragmentShaderSource,
                   _renderState, _closed, flat, faceForward, options, heap0, ret>>

\* The appearances the renderer's writes are followed on: the shader inputs
\* play no part in render states and are left out.
InitRenderer ==
    /\ Init
    /\ flat = Undefined
    /\ faceForward = Undefined
    /\ _fragmentShaderSource = Undefined

\* The operations that bear on render states, and the renderer's writes.
NextRenderer ==
    \/ SetMaterial
    \/ SetTranslucent
    \/ IsTranslucentCall
    \/ GetRenderStateCall
    \/ GetDefaultRenderStateCall
    \/ RendererMutate

SpecRenderer == InitRenderer /\ [][NextRenderer]_vars

----------------------------------------------------------------------------
(* Properties *)

\* Whether a material is assigned, and what the appearance then counts as.
MaterialPresent == material.kind = "object"
ExpectedTranslucent ==
    IF MaterialPresent THEN material.isTranslucent = "true" ELSE translucent = "true"

\* The latest operation was the named method and it returned.
Returned(op) == ret.op = op /\ ~ret.threw

\* The override objects are as the caller built them.
OverrideIntact ==
    /\ _renderState = options.renderState
    /\ \A a \in DOMAIN heap0 : a \in DOMAIN heap /\ heap[a] = heap0[a]

\* C1: isTranslucent() returns the material's isTranslucent() result when a
\* material is present, whatever the translucent flag, and the translucent
\* flag itself when the material is undefined or null.
C1_IsTranslucent ==
    ret.op = "isTranslucent" =>
        /\ ~ret.threw
        /\ MaterialPresent => ret.val = material.isTranslucent
        /\ material.kind \in {Undefined, Null} => ret.val = translucent

C1_Witness ==
    /\ ret.op = "isTranslucent"
    /\ material = OpaqueMaterial
    /\ translucent = "true"
    /\ ret.val = "false"

C3_ReturnedStateIsolated ==
    Returned("getRenderState") =>
        /\ ret.ref # _renderState
        /\ OverrideIntact

\* C4: with an override, the result has depthMask = false and blending =
\* ALPHA_BLEND when the appearance is translucent, depthMask = true and the
\* override's blending (or none) when it is not, and every other top-level
\* property of the override, and no more.
C4_RenderStatePatch ==
    (Returned("getRenderState") /\ _renderState # Undefined) =>
        LET o == heap[_renderState]
            r == heap[ret.ref]
            patched == {"depthMask", "blending"}
        IN  /\ IF ExpectedTranslucent
               THEN /\ DOMAIN r = DOMAIN o \cup patched
                    /\ r["depthMask"] = "false"
                    /\ r["blending"] = ALPHA_BLEND
               ELSE /\ DOMAIN r = DOMAIN o \cup {"depthMask"}
                    /\ r["depthMask"] = "true"
                    /\ "blending" \in DOMAIN o => r["blending"] = o["blending"]
            /\ \A f \in DOMAIN o \ patched : r[f] = o[f]

C4_Witness ==
    /\ Returned("getRenderState")
    /\ _renderState # Undefined
    /\ "depthMask" \in DOMAIN heap[_renderState]
    /\ heap[_renderState]["depthMask"] = "false"
    /\ "blending" \in DOMAIN heap[_renderState]
    /\ "depthTest" \in DOMAIN heap[_renderState]
    /\ ~ExpectedTranslucent
    /\ heap[ret.ref]["depthMask"] = "true"
    /\ heap[ret.ref]["blending"] = heap[_renderState]["blending"]

\* C5: an appearance constructed with translucent = false and closed = true
\* and without a material gets depthMask = true, no blending, cull.enabled =
\* true and cull.face = BACK from getRenderState().
C5_OpaqueClosedScenario ==
    (/\ ret.op = "getRenderState"
     /\ options.translucent = "false" /\ translucent = "false"
     /\ options.closed = "true"
     /\ options.material.kind = Undefined /\ material.kind = Undefined) =>
        /\ ~ret.threw
        /\ LET r == heap[ret.ref]
           IN  /\ "depthMask" \in DOMAIN r /\ r["depthMask"] = "true"
               /\ "blending" \notin DOMAIN r
               /\ "cull" \in DOMAIN r
               /\ heap[r["cull"]] = ("enabled" :> "true" @@ "face" :> BACK)

\* C6: no sequence of method calls and material assignments changes the
\* override: the appearance holds the same object, with the properties and
\* values it was built with.
C6_OverrideNeverMutated == OverrideIntact

C6_Witness ==
    /\ Returned("getRenderState")
    /\ _renderState # Undefined
    /\ options.material # material
    /\ "depthMask" \in DOMAIN heap[_renderState]
    /\ heap[ret.ref]["depthMask"] # heap[_renderState]["depthMask"]

\* C7: translucent and closed keep the values the constructor gave them in
\* every state reachable through property assignments and method calls.
C7_FlagsFixedAtConstruction ==
    /\ translucent = defaultValue(options.translucent, "true")
    /\ _closed = defaultValue(options.closed, "false")

\* C8: getDefaultRenderState(t, c) returns new objects only, with
\* depthTest.enabled = true; depthMask = false and blending = ALPHA_BLEND
\* exactly when t; cull = {enabled: true, face: BACK} exactly when c.
C8_DefaultRenderState ==
    ret.op = "getDefaultRenderState" =>
        LET t == ret.input[1] = "true"
            c == ret.input[2] = "true"
            r == heap[ret.ref]
        IN  /\ ~ret.threw
            /\ Reachable(heap, {ret.ref}) \cap Reachable(heap, {_renderState}) = {}
            /\ DOMAIN r = {"depthTest"} \cup (IF t THEN {"depthMask", "blending"} ELSE {})
                                        \cup (IF c THEN {"cull"} ELSE {})
            /\ heap[r["depthTest"]] = ("enabled" :> "true")
            /\ t => r["depthMask"] = "false" /\ r["blending"] = ALPHA_BLEND
            /\ c => /\ heap[r["cull"]] = ("enabled" :> "true" @@ "face" :> BACK)
                    /\ r["cull"] # r["depthTest"]

C8_Witness ==
    /\ Returned("getDefaultRenderState")
    /\ ret.input = <<"false", "true">>
    /\ _renderState # Undefined
    /\ "cull" \in DOMAIN heap[ret.ref]
    /\ "depthMask" \notin DOMAIN heap[ret.ref]

\* C9: getFragmentShaderSource() builds the ShaderSource with includeBuiltIns
\* = false, defines holding FLAT iff flat and FACE_FORWARD iff faceForward
\* (FLAT first, each once), and sources = [material.shaderSource,
\* fragmentShaderSource] with a material, [fragmentShaderSource] without.
C9_FragmentShaderArguments ==
    ret.op = "getFragmentShaderSource" =>
        LET d == ret.args.defines
            src == ret.args.sources
            at(x) == {i \in 1..Len(d) : d[i] = x}
        IN  /\ ~ret.threw
            /\ ret.args.includeBuiltIns = "false"
            /\ \A i \in 1..Len(d) : d[i] \in {"FLAT", "FACE_FORWARD"}
            /\ Cardinality(at("FLAT")) = (IF flat = "true" THEN 1 ELSE 0)
            /\ Cardinality(at("FACE_FORWARD")) = (IF faceForward = "true" THEN 1 ELSE 0)
            /\ \A i \in at("FLAT"), j \in at("FACE_FORWARD") : i < j
            /\ Len(src) = (IF MaterialPresent THEN 2 ELSE 1)
            /\ src[Len(src)] = _fragmentShaderSource
            /\ MaterialPresent => src[1] = material.shaderSource

C9_Witness ==
    /\ Returned("getFragmentShaderSource")
    /\ material = TranslucentMaterial
    /\ _fragmentShaderSource = "void main(){}"
    /\ flat = "true"
    /\ faceForward = "false"
    /\ ret.args.sources = <<"vec4 f(){return vec4(1.0);}", "void main(){}">>
    /\ ret.args.defines = <<"FLAT">>

\* C10: a method call changes no field of the appearance; a call repeated
\* with nothing assigned in between returns the same result; and the result
\* of a call follows the material assigned when it is made.
C10_PureReads ==
    [][quiet' =>
        /\ fields' = fields
        /\ (quiet /\ ret'.op = ret.op) =>
              /\ ret'.val = ret.val
              /\ ret'.args = ret.args
              /\ ret'.text = ret.text
              /\ ret'.threw = ret.threw
              /\ (ret'.op = "getRenderState" /\ ~ret.threw) =>
                    heap'[ret'.ref] = heap[ret.ref]
        /\ (MaterialPresent' /\ ret'.op = "isTranslucent") =>
              ret'.val = material'.isTranslucent
        /\ (MaterialPresent' /\ ret'.op = "getRenderState" /\ ~ret'.threw) =>
              heap'[ret'.ref]["depthMask"] = Not(material'.isTranslucent)
        /\ (MaterialPresent' /\ ret'.op = "getFragmentShaderSource") =>
              Head(ret'.args.sources) = material'.shaderSource
    ]_vars

C10_Witness ==
    /\ quiet
    /\ Returned("getRenderState")
    /\ options.material = TranslucentMaterial
    /\ material = OpaqueMaterial
    /\ translucent = "true"
    /\ heap[ret.ref]["depthMask"] = "true"

====
